---- MODULE Spec2Model ----
(***************************************************************************)
(* Model of the picking-list pipeline of src/src/app_core/pipeline.py:     *)
(* column/code normalisation, the quantity engine, the master and BOM      *)
(* lookups, the row expander join_and_map and the paginator.               *)
(*                                                                         *)
(* A text is a sequence of characters; a character is a one-character      *)
(* string, except for a few tokens that stand for one character or word    *)
(* that the toolbox cannot spell:                                          *)
(*   "fwA"   U+FF21 FULLWIDTH LATIN CAPITAL LETTER A                       *)
(*   "idsp"  U+3000 IDEOGRAPHIC SPACE                                      *)
(*   "NaN", "sNaN", "Inf", "Infinity"   the words the decimal parser       *)
(*           accepts besides numerals                                      *)
(***************************************************************************)
EXTENDS Integers, Sequences, FiniteSets, TLC

VARIABLES
    shipment,        \* the shipment DataFrame: [columns, rows]
    master,          \* the master DataFrame: [columns, rows]
    bomData,         \* the BOM DataFrame rows (source order)
    useBom,          \* whether a BOM table is given to the run
    perPage,         \* config.spec.items_per_page
    pc,              \* position of the run
    bomLookup,       \* result of build_bom_lookup (or NoLookup)
    masterLookup,    \* join_and_map: master_lookup
    merged,          \* join_and_map: merged rows
    locationColumn,  \* join_and_map: master_location_column
    rowIdx,          \* join_and_map: index of the merged row in the loop
    children,        \* join_and_map: children of the current parent
    childIdx,        \* join_and_map: child_idx of the enumerate loop
    parentIndex,     \* join_and_map: parent_index
    sequenceCounter, \* join_and_map: sequence_counter
    rows,            \* join_and_map: rows
    parentRow,       \* join_and_map: parent_row
    pages,           \* run_pipeline: pages
    loader,          \* load_excel: the sheet, the header tried, the outcome
    resolver,        \* resolve_field: its arguments and its result
    invocations,     \* join_and_map called several times: shared arguments, locals
    ui               \* the desktop window: buttons, workers, queued signals

\* The variables of one run of the pipeline.
run == <<shipment, master, bomData, useBom, perPage, pc, bomLookup,
         masterLookup, merged, locationColumn, rowIdx, children, childIdx,
         parentIndex, sequenceCounter, rows, parentRow, pages>>

\* The variables a run of the pipeline does not touch.
outside == <<loader, resolver, invocations, ui>>

vars == <<run, outside>>

\* The value of a part of the program that is not running.
Idle == [status |-> "idle"]

inputs == <<shipment, master, bomData, useBom, perPage>>

----------------------------------------------------------------------------
(* Texts *)

Digits == {"0", "1", "2", "3", "4", "5", "6", "7", "8", "9"}

DigitVal(c) ==
    CASE c = "0" -> 0 [] c = "1" -> 1 [] c = "2" -> 2 [] c = "3" -> 3
      [] c = "4" -> 4 [] c = "5" -> 5 [] c = "6" -> 6 [] c = "7" -> 7
      [] c = "8" -> 8 [] c = "9" -> 9

DigitChar(n) ==
    CASE n = 0 -> "0" [] n = 1 -> "1" [] n = 2 -> "2" [] n = 3 -> "3"
      [] n = 4 -> "4" [] n = 5 -> "5" [] n = 6 -> "6" [] n = 7 -> "7"
      [] n = 8 -> "8" [] n = 9 -> "9"

\* Unicode code points of the characters the model uses (str comparison).
CodePoint(c) ==
    CASE c = " " -> 32 [] c = "+" -> 43 [] c = "," -> 44 [] c = "-" -> 45
      [] c = "." -> 46 [] c \in Digits -> 48 + DigitVal(c)
      [] c = "A" -> 65 [] c = "B" -> 66 [] c = "C" -> 67 [] c = "D" -> 68
      [] c = "L" -> 76 [] c = "N" -> 78 [] c = "P" -> 80 [] c = "T" -> 84
      [] c = "_" -> 95 [] c = "a" -> 97 [] c = "b" -> 98 [] c = "x" -> 120
      [] c = "y" -> 121 [] c = "idsp" -> 12288 [] c = "fwA" -> 65313

\* str(int) for a non-negative int: its decimal digits.
RECURSIVE NatToText(_)
NatToText(n) ==
    IF n < 10 THEN <<DigitChar(n)>>
    ELSE NatToText(n \div 10) \o <<DigitChar(n % 10)>>

\* The value of a text of ASCII digits (0 for the empty text).
RECURSIVE TextToNat(_)
TextToNat(t) ==
    IF t = <<>> THEN 0
    ELSE 10 * TextToNat(SubSeq(t, 1, Len(t) - 1)) + DigitVal(t[Len(t)])

AllDigits(t) == \A i \in DOMAIN t : t[i] \in Digits

\* str.replace(ch, "")
RECURSIVE RemoveChar(_, _)
RemoveChar(t, ch) ==
    IF t = <<>> THEN <<>>
    ELSE (IF t[1] = ch THEN <<>> ELSE <<t[1]>>) \o RemoveChar(Tail(t), ch)

\* unicodedata.normalize("NFKC", .) on one character
NFKC(c) ==
    CASE c = "fwA" -> "A"
      [] c = "idsp" -> " "
      [] OTHER -> c

\* str.isspace / the regex class \s
IsSpace(c) == c \in {" ", "idsp"}

\* str.strip()
RECURSIVE LStrip(_)
LStrip(t) == IF t # <<>> /\ IsSpace(t[1]) THEN LStrip(Tail(t)) ELSE t

RECURSIVE RStrip(_)
RStrip(t) ==
    IF t # <<>> /\ IsSpace(t[Len(t)]) THEN RStrip(SubSeq(t, 1, Len(t) - 1)) ELSE t

Strip(t) == LStrip(RStrip(t))

\* re.sub(r"\s+", "", .)
RECURSIVE RemoveSpaces(_)
RemoveSpaces(t) ==
    IF t = <<>> THEN <<>>
    ELSE (IF IsSpace(t[1]) THEN <<>> ELSE <<t[1]>>) \o RemoveSpaces(Tail(t))

\* A missing cell (None / NaN), which is no text.
None == <<"<None>">>

\* unicodedata.normalize("NFKC", .) on a text
Normalize(t) == [i \in DOMAIN t |-> NFKC(t[i])]

_clean_column(name) == RemoveSpaces(Normalize(Strip(name)))

\* Cells are texts (the loaders read with dtype=str) or None.
normalize_value(value) == IF value = None THEN <<>> ELSE value

_normalize_code_value(value) == _clean_column(normalize_value(value))

----------------------------------------------------------------------------
(* Quantity engine.  A Decimal is [kind, neg, coef, exp, payload]: the      *)
(* finite value (-1)^neg * coef * 10^exp, an infinity, a quiet NaN or a     *)
(* signalling NaN.  The texts of the model are short, so the context        *)
(* precision of 28 digits is never reached and no operation rounds.         *)

NoDecimal == [kind |-> "none", neg |-> FALSE, coef |-> 0, exp |-> 0, payload |-> <<>>]

\* What an operation that raised decimal.InvalidOperation yields.
Raised == <<"<InvalidOperation>">>

Finite(neg, coef, exp) ==
    [kind |-> "fin", neg |-> neg, coef |-> coef, exp |-> exp, payload |-> <<>>]

RECURSIVE StripLeadingZeros(_)
StripLeadingZeros(t) ==
    IF t # <<>> /\ t[1] = "0" THEN StripLeadingZeros(Tail(t)) ELSE t

\* A numeral with a decimal point: its integer and fraction digits.
DecimalPoint(neg, ip, fp) ==
    IF AllDigits(ip) /\ AllDigits(fp) /\ Len(ip) + Len(fp) > 0
    THEN Finite(neg, TextToNat(ip \o fp), 0 - Len(fp))
    ELSE NoDecimal

DotAt(body) == CHOOSE i \in DOMAIN body : body[i] = "."

\* The numeric string after its sign.
DecimalOfBody(neg, body) ==
    IF body = <<>> THEN NoDecimal
    ELSE IF body \in {<<"Inf">>, <<"Infinity">>}
    THEN [kind |-> "inf", neg |-> neg, coef |-> 0, exp |-> 0, payload |-> <<>>]
    ELSE IF body[1] \in {"NaN", "sNaN"}
    THEN IF AllDigits(Tail(body))
         THEN [kind |-> IF body[1] = "NaN" THEN "nan" ELSE "snan", neg |-> neg,
               coef |-> 0, exp |-> 0, payload |-> StripLeadingZeros(Tail(body))]
         ELSE NoDecimal
    ELSE IF Cardinality({i \in DOMAIN body : body[i] = "."}) = 0
    THEN IF AllDigits(body) THEN Finite(neg, TextToNat(body), 0) ELSE NoDecimal
    ELSE IF Cardinality({i \in DOMAIN body : body[i] = "."}) = 1
    THEN DecimalPoint(neg, SubSeq(body, 1, DotAt(body) - 1),
                      SubSeq(body, DotAt(body) + 1, Len(body)))
    ELSE NoDecimal

DecimalOfStripped(s) ==
    IF s # <<>> /\ s[1] \in {"+", "-"} THEN DecimalOfBody(s[1] = "-", Tail(s))
    ELSE DecimalOfBody(FALSE, s)

\* Decimal(text) for a str: the numeric-string grammar of the decimal
\* module, without exponents (no text of the model holds "e" or "E");
\* NoDecimal where the constructor raises InvalidOperation.
DecimalOf(text) == DecimalOfStripped(Strip(text))

\* Length of the run of digits of t that starts at position i.
RECURSIVE DigitRun(_, _)
DigitRun(t, i) ==
    IF i <= Len(t) /\ t[i] \in Digits THEN 1 + DigitRun(t, i + 1) ELSE 0

\* The fraction part (?:\.\d+)? at position k: its length, 0 if absent.
FractionLen(t, k, n2) == IF k <= Len(t) /\ t[k] = "." /\ n2 > 0 THEN 1 + n2 ELSE 0

\* \d+(?:\.\d+)? at position j, with n1 leading digits: its length.
NumberLen(t, j, n1) ==
    IF n1 = 0 THEN 0 ELSE n1 + FractionLen(t, j + n1, DigitRun(t, j + n1 + 1))

UnsignedLen(t, j) == NumberLen(t, j, DigitRun(t, j))

SignedLen(n) == IF n = 0 THEN 0 ELSE n + 1

\* Length of the match of [-+]?\d+(?:\.\d+)? at position i of t, 0 if none.
MatchLenAt(t, i) ==
    IF t[i] \in {"+", "-"} THEN SignedLen(UnsignedLen(t, i + 1)) ELSE UnsignedLen(t, i)

\* re.findall(r"[-+]?\d+(?:\.\d+)?", t), scanning from position i.
RECURSIVE FindAll(_, _)
FindAllStep(t, i, n) ==
    IF n = 0 THEN FindAll(t, i + 1)
    ELSE <<SubSeq(t, i, i + n - 1)>> \o FindAll(t, i + n)

FindAll(t, i) == IF i > Len(t) THEN <<>> ELSE FindAllStep(t, i, MatchLenAt(t, i))

\* for candidate in reversed(matches): the first that Decimal accepts.
RECURSIVE LastParsing(_)
LastParsingStep(d, matches) ==
    IF d # NoDecimal THEN d ELSE LastParsing(SubSeq(matches, 1, Len(matches) - 1))

LastParsing(matches) ==
    IF matches = <<>> THEN NoDecimal
    ELSE LastParsingStep(DecimalOf(matches[Len(matches)]), matches)

\* The except branch of _parse_decimal, taken when Decimal(text) raised.
ParseDirect(direct, text) ==
    IF direct # NoDecimal THEN direct ELSE LastParsing(FindAll(text, 1))

ParseText(text) == IF text = <<>> THEN NoDecimal ELSE ParseDirect(DecimalOf(text), text)

_parse_decimal(value) == ParseText(RemoveChar(normalize_value(value), ","))

\* Decimal.normalize() on a finite value: trailing zeros of the coefficient
\* move into the exponent; a zero becomes 0E+0 and keeps its sign.
RECURSIVE NormalizeFinite(_)
NormalizeFinite(d) ==
    IF d.coef = 0 THEN Finite(d.neg, 0, 0)
    ELSE IF d.coef % 10 = 0 THEN NormalizeFinite(Finite(d.neg, d.coef \div 10, d.exp + 1))
    ELSE d

RECURSIVE Zeros(_)
Zeros(n) == IF n <= 0 THEN <<>> ELSE <<"0">> \o Zeros(n - 1)

\* str.rstrip(ch)
RECURSIVE RStripChar(_, _)
RStripChar(t, ch) ==
    IF t # <<>> /\ t[Len(t)] = ch THEN RStripChar(SubSeq(t, 1, Len(t) - 1), ch) ELSE t

\* The digits of a negative exponent: n of them behind the point.
FixedPoint(padded, n) ==
    SubSeq(padded, 1, Len(padded) - n) \o <<".">>
        \o SubSeq(padded, Len(padded) - n + 1, Len(padded))

PadTo(ds, n) == Zeros(n - Len(ds)) \o ds

Sign(d) == IF d.neg THEN <<"-">> ELSE <<>>

\* format(d, "f") for a Decimal that normalize() returned.
FormatF(d) ==
    CASE d.kind = "nan" -> Sign(d) \o <<"NaN">> \o d.payload
      [] d.kind = "inf" -> Sign(d) \o <<"Infinity">>
      [] d.kind = "fin" ->
           IF d.exp >= 0 THEN Sign(d) \o NatToText(d.coef) \o Zeros(d.exp)
           ELSE Sign(d) \o FixedPoint(PadTo(NatToText(d.coef), 1 - d.exp), 0 - d.exp)

\* if "." in text: text.rstrip("0").rstrip(".")
TrimFraction(text) ==
    IF \E i \in DOMAIN text : text[i] = "."
    THEN RStripChar(RStripChar(text, "0"), ".")
    ELSE text

\* Raised where value.normalize() raises (a signalling NaN).
_format_decimal(value) ==
    IF value.kind = "snan" THEN Raised
    ELSE IF value.kind = "fin" THEN TrimFraction(FormatF(NormalizeFinite(value)))
    ELSE TrimFraction(FormatF(value))

DisplayParsed(value, decimal_value) ==
    IF decimal_value = NoDecimal THEN normalize_value(value)
    ELSE _format_decimal(decimal_value)

_display_quantity(value) == DisplayParsed(value, _parse_decimal(value))

\* Decimal.__mul__ under the default context (InvalidOperation is trapped):
\* NoDecimal where it raises.
Multiply(a, b) ==
    IF a.kind = "snan" \/ b.kind = "snan" THEN NoDecimal
    ELSE IF a.kind = "nan" THEN a
    ELSE IF b.kind = "nan" THEN b
    ELSE IF a.kind = "inf" \/ b.kind = "inf"
    THEN IF (a.kind = "fin" /\ a.coef = 0) \/ (b.kind = "fin" /\ b.coef = 0)
         THEN NoDecimal
         ELSE [kind |-> "inf", neg |-> (a.neg # b.neg), coef |-> 0, exp |-> 0,
               payload |-> <<>>]
    ELSE Finite(a.neg # b.neg, a.coef * b.coef, a.exp + b.exp)

\* The first return of _compute_child_quantity, from the formatted texts.
ScaledTexts(result, parent, base) ==
    IF Raised \in {result, parent, base} THEN Raised
    ELSE <<result, parent \o <<" ", "×", " ">> \o base>>

ScaledQuantity(result, parent_dec, base_dec) ==
    IF result = NoDecimal THEN Raised
    ELSE ScaledTexts(_format_decimal(result), _format_decimal(parent_dec),
                     _format_decimal(base_dec))

\* The second return of _compute_child_quantity.
BaseOnly(base) == IF base = Raised THEN Raised ELSE <<base, <<>> >>

\* _compute_child_quantity without the scaling by the parent quantity.
ComputeParsed_unscaled(parent_dec, base_dec, base_qty) ==
    IF base_dec # NoDecimal THEN BaseOnly(_format_decimal(base_dec))
    ELSE <<normalize_value(base_qty), <<>> >>

ComputeParsed(parent_dec, base_dec, base_qty) ==
    IF parent_dec # NoDecimal /\ base_dec # NoDecimal
    THEN ScaledQuantity(Multiply(parent_dec, base_dec), parent_dec, base_dec)
    ELSE IF base_dec # NoDecimal THEN BaseOnly(_format_decimal(base_dec))
    ELSE <<normalize_value(base_qty), <<>> >>

\* Returns <<result, note>>, or Raised.
_compute_child_quantity(parent_qty, base_qty) ==
    ComputeParsed(_parse_decimal(parent_qty), _parse_decimal(base_qty), base_qty)

----------------------------------------------------------------------------
(* Rows and tables.  A row (a dict) is a function from column names to     *)
(* cells; a DataFrame is [columns, rows] with every row defined on the     *)
(* columns.                                                                *)

EmptyDict == <<>>

\* dict.get(key, default)
Get(row, key, default) == IF key \in DOMAIN row THEN row[key] ELSE default

\* dict[key] = value on a copy
Put(dict, key, value) ==
    [k \in DOMAIN dict \cup {key} |-> IF k = key THEN value ELSE dict[k]]

\* DataFrame.empty: no rows or no columns
IsEmptyFrame(df) == Len(df.rows) = 0 \/ Len(df.columns) = 0

ColumnSet(df) == {df.columns[i] : i \in DOMAIN df.columns}

SuffixIn == <<"_", "i", "n">>
SuffixMst == <<"_", "m", "s", "t">>

RECURSIVE coalesce(_, _)
coalesce(row, candidates) ==
    IF candidates = <<>> THEN <<>>
    ELSE IF candidates[1] \in DOMAIN row /\ row[candidates[1]] \notin {None, <<>>}
    THEN normalize_value(row[candidates[1]])
    ELSE coalesce(row, Tail(candidates))

\* Variants with the master's column tried before the shipment's.
Variants_master_first(cleaned) == <<cleaned, cleaned \o SuffixMst, cleaned \o SuffixIn>>

\* The three candidates of one cleaned base name.
Variants(cleaned) == <<cleaned, cleaned \o SuffixIn, cleaned \o SuffixMst>>

\* The candidate list resolve_field builds from the bases of one field.
RECURSIVE Candidates(_)
Candidates(bases) ==
    IF bases = <<>> THEN <<>>
    ELSE Variants(_clean_column(bases[1])) \o Candidates(Tail(bases))

resolve_field(config, row, field) ==
    coalesce(row, Candidates(Get(config.mapping, field, <<>>)))

\* The per-row dict of _build_master_lookup: column after column, the value
\* under the name of the column and under its _mst twin.
RECURSIVE RowDictFrom(_, _, _, _)
RowDictFrom(columns, rec, i, row_dict) ==
    IF i > Len(columns) THEN row_dict
    ELSE RowDictFrom(columns, rec, i + 1,
                     Put(Put(row_dict, columns[i], normalize_value(rec[columns[i]])),
                         columns[i] \o SuffixMst, normalize_value(rec[columns[i]])))

MasterRowDict(df, rec) == RowDictFrom(df.columns, rec, 1, EmptyDict)

\* The loop of _build_master_lookup over the rows from position i on.
\* StoreMaster keeping the first row of a key.
StoreMaster_first_row(lookup, key, row_dict) ==
    IF key # <<>> /\ key \notin DOMAIN lookup THEN Put(lookup, key, row_dict) ELSE lookup

\* if key: lookup[key] = row_dict
StoreMaster(lookup, key, row_dict) ==
    IF key # <<>> THEN Put(lookup, key, row_dict) ELSE lookup

KeyOf(row_dict, cleaned_join_key) ==
    _normalize_code_value(Get(row_dict, cleaned_join_key, <<>>))

RECURSIVE MasterLookupFrom(_, _, _, _)
MasterLookupFrom(df, cleaned_join_key, lookup, i) ==
    IF i > Len(df.rows) THEN lookup
    ELSE MasterLookupFrom(df, cleaned_join_key,
                          StoreMaster(lookup,
                                      KeyOf(MasterRowDict(df, df.rows[i]), cleaned_join_key),
                                      MasterRowDict(df, df.rows[i])),
                          i + 1)

_build_master_lookup(df, join_key) ==
    IF IsEmptyFrame(df) THEN EmptyDict
    ELSE MasterLookupFrom(df, _clean_column(join_key), EmptyDict, 1)

----------------------------------------------------------------------------
(* BOM lookup *)

\* int(raw) for a str accepts surrounding whitespace, a sign and ASCII
\* digits; it raises ValueError on anything else.
Unsigned(s) == IF s # <<>> /\ s[1] \in {"+", "-"} THEN Tail(s) ELSE s

IsNumeral(body) == body # <<>> /\ AllDigits(body)

IntParses(raw) == IsNumeral(Unsigned(Strip(raw)))

SignedValue(s) ==
    IF s[1] = "-" THEN 0 - TextToNat(Tail(s))
    ELSE IF s[1] = "+" THEN TextToNat(Tail(s))
    ELSE TextToNat(s)

IntOf(raw) == SignedValue(Strip(raw))

\* _sort_key comparing every sequence as text.
SortKeyOf_lexical(raw) == <<1, raw>>

SortKeyOf(raw) == IF IntParses(raw) THEN <<0, IntOf(raw)>> ELSE <<1, raw>>

_sort_key(entry) == SortKeyOf(Get(entry, "sequence", <<>>))

\* str < str: by code point, a proper prefix first
RECURSIVE TextLess(_, _)
TextLess(a, b) ==
    IF b = <<>> THEN FALSE
    ELSE IF a = <<>> THEN TRUE
    ELSE IF a[1] # b[1] THEN CodePoint(a[1]) < CodePoint(b[1])
    ELSE TextLess(Tail(a), Tail(b))

\* tuple < tuple for the keys of _sort_key
KeyLess(k1, k2) ==
    IF k1[1] # k2[1] THEN k1[1] < k2[1]
    ELSE IF k1[1] = 0 THEN k1[2] < k2[2]
    ELSE TextLess(k1[2], k2[2])

\* list.sort(key=_sort_key) is stable: an entry goes behind every entry
\* whose key is not greater than its own.
RECURSIVE InsertSorted(_, _)
InsertSorted(sorted, entry) ==
    IF sorted = <<>> THEN <<entry>>
    ELSE IF KeyLess(_sort_key(entry), _sort_key(sorted[Len(sorted)]))
    THEN InsertSorted(SubSeq(sorted, 1, Len(sorted) - 1), entry) \o <<sorted[Len(sorted)]>>
    ELSE sorted \o <<entry>>

RECURSIVE SortEntries(_)
SortEntries(entries) ==
    IF entries = <<>> THEN <<>>
    ELSE InsertSorted(SortEntries(SubSeq(entries, 1, Len(entries) - 1)),
                      entries[Len(entries)])

\* The entry build_bom_lookup makes of one BOM record.
BomEntry(record, config) ==
    [productCode  |-> normalize_value(Get(record, _clean_column(config.child_key), <<>>)),
     productName  |-> normalize_value(Get(record, _clean_column(config.child_name), <<>>)),
     baseQuantity |-> normalize_value(Get(record, _clean_column(config.quantity), <<>>)),
     unit         |-> IF config.unit # None
                      THEN normalize_value(Get(record, _clean_column(config.unit), <<>>))
                      ELSE <<>>,
     itemType     |-> IF config.child_type # None
                      THEN normalize_value(Get(record, _clean_column(config.child_type), <<>>))
                      ELSE <<>>,
     sequence     |-> IF config.sequence # None
                      THEN normalize_value(Get(record, _clean_column(config.sequence), <<>>))
                      ELSE <<>>]

\* The grouping loop of build_bom_lookup over the records from position i on.
\* One iteration of the grouping loop: the lookup after the record.
GroupRecord(lookup, record, config, parent_code, child_code) ==
    IF parent_code = <<>> \/ child_code = <<>> THEN lookup
    ELSE Put(lookup, parent_code,
             Append(Get(lookup, parent_code, <<>>), BomEntry(record, config)))

\* The grouping loop of build_bom_lookup over the records from position i on.
RECURSIVE GroupFrom(_, _, _, _)
GroupFrom(data, config, lookup, i) ==
    IF i > Len(data.rows) THEN lookup
    ELSE GroupFrom(data, config,
                   GroupRecord(lookup, data.rows[i], config,
                               _normalize_code_value(
                                   Get(data.rows[i], _clean_column(config.parent_key), <<>>)),
                               normalize_value(
                                   Get(data.rows[i], _clean_column(config.child_key), <<>>))),
                   i + 1)

\* for entries in lookup.values(): entries.sort(key=_sort_key)
SortAll(lookup) == [k \in DOMAIN lookup |-> SortEntries(lookup[k])]

build_bom_lookup(data, config) ==
    IF IsEmptyFrame(data) THEN EmptyDict
    ELSE SortAll(GroupFrom(data, config, EmptyDict, 1))

----------------------------------------------------------------------------
(* shipment.merge(master, how="left", on=join_key, suffixes=("_in","_mst")) *)

\* Columns of both frames other than the key get a suffix.
Overlap(left, right, key) == (ColumnSet(left) \cap ColumnSet(right)) \ {key}

MergedColumns(left, right, key) ==
    {key}
    \cup {IF c \in Overlap(left, right, key) THEN c \o SuffixIn ELSE c :
             c \in ColumnSet(left) \ {key}}
    \cup {IF c \in Overlap(left, right, key) THEN c \o SuffixMst ELSE c :
             c \in ColumnSet(right) \ {key}}

\* One merged row: the cells of the left row and of the right row.
MergedRow(left, right, key, lrow, rrow) ==
    [k \in MergedColumns(left, right, key) |->
        IF k = key THEN lrow[key]
        ELSE IF \E c \in ColumnSet(left) \ {key} :
                   k = (IF c \in Overlap(left, right, key) THEN c \o SuffixIn ELSE c)
        THEN lrow[CHOOSE c \in ColumnSet(left) \ {key} :
                   k = (IF c \in Overlap(left, right, key) THEN c \o SuffixIn ELSE c)]
        ELSE rrow[CHOOSE c \in ColumnSet(right) \ {key} :
                   k = (IF c \in Overlap(left, right, key) THEN c \o SuffixMst ELSE c)]]

\* The right rows from position j on whose key cell equals that of lrow,
\* in the order of the right frame.
RECURSIVE MatchesFrom(_, _, _, _, _)
MatchesFrom(left, right, key, lrow, j) ==
    IF j > Len(right.rows) THEN <<>>
    ELSE (IF right.rows[j][key] = lrow[key]
          THEN <<MergedRow(left, right, key, lrow, right.rows[j])>>
          ELSE <<>>)
         \o MatchesFrom(left, right, key, lrow, j + 1)

\* A left join keeps the order of the left rows; a left row without a match
\* appears once, its right-hand cells missing (NaN).
RowsOf(left, right, key, lrow, matches) ==
    IF matches = <<>>
    THEN <<MergedRow(left, right, key, lrow, [c \in ColumnSet(right) |-> None])>>
    ELSE matches

RECURSIVE MergeFrom(_, _, _, _)
MergeFrom(left, right, key, i) ==
    IF i > Len(left.rows) THEN <<>>
    ELSE RowsOf(left, right, key, left.rows[i],
                MatchesFrom(left, right, key, left.rows[i], 1))
         \o MergeFrom(left, right, key, i + 1)

\* merge raises KeyError when a frame lacks the key column.
MergeRaises(left, right, key) ==
    key \notin ColumnSet(left) \/ key \notin ColumnSet(right)

Merge(left, right, key) == MergeFrom(left, right, key, 1)

\* DataFrame.fillna("") on a row
FillNa(row) == [k \in DOMAIN row |-> IF row[k] = None THEN <<>> ELSE row[k]]

----------------------------------------------------------------------------
(* join_and_map *)

\* Python's "a or b" on cells
Or(a, b) == IF a \notin {None, <<>>} THEN a ELSE b

\* Index (0-based) of the master column join_and_map reads locations from.
LocationColumnIndex == 10

\* master_location_column; None when the master has no such column.
MasterLocationColumn(df) ==
    IF Len(df.columns) > LocationColumnIndex
    THEN IF df.columns[LocationColumnIndex + 1] # <<>>
         THEN _clean_column(df.columns[LocationColumnIndex + 1])
         ELSE None
    ELSE None

\* The location of a row dict, as join_and_map computes it for parents
\* (the merged row) and for children (the child's master row).
LocationOf(data, master_location_column) ==
    IF master_location_column # None
    THEN normalize_value(Or(Get(data, master_location_column, <<>>),
                            Get(data, master_location_column \o SuffixMst, <<>>)))
    ELSE <<>>

\* Whether building the parent row raises (in _display_quantity).
ParentRaises(config, data) ==
    _display_quantity(resolve_field(config, data, "quantity")) = Raised

\* The parent PickingRow of one merged row (child_index 0 stands for None).
ParentRow(config, data, master_location_column, parent_index, sequence_counter) ==
    [shipDate      |-> resolve_field(config, data, "shipDate"),
     clientCode    |-> resolve_field(config, data, "clientCode"),
     notice        |-> resolve_field(config, data, "notice"),
     productCode   |-> Or(resolve_field(config, data, "productCode"),
                          normalize_value(Get(data, _clean_column(config.join_key), None))),
     location      |-> LocationOf(data, master_location_column),
     quantity      |-> _display_quantity(resolve_field(config, data, "quantity")),
     itemType      |-> resolve_field(config, data, "itemType"),
     productName   |-> resolve_field(config, data, "productName"),
     orderNumber   |-> resolve_field(config, data, "orderNumber"),
     no            |-> NatToText(parent_index),
     sequence      |-> sequence_counter,
     qr_path       |-> <<>>,
     is_child      |-> FALSE,
     parent_no     |-> None,
     child_index   |-> 0,
     quantity_note |-> <<>>,
     unit          |-> <<>>]

\* _display_quantity(result_qty) of a computed <<result, note>>.
ComputedRaises(computed) == computed = Raised \/ _display_quantity(computed[1]) = Raised

\* Whether building a child row raises (in _compute_child_quantity or in
\* _display_quantity of its result).
ChildRaises(child, parent_row) ==
    ComputedRaises(_compute_child_quantity(parent_row.quantity,
                                           Get(child, "baseQuantity", <<>>)))

\* The child PickingRow, from the child's code, its master row and its
\* computed <<result, note>>.
ChildRowOf(config, child, child_idx, parent_row, child_code_raw, child_master, master_location_column, parent_index, sequence_counter, computed) ==
    [shipDate      |-> parent_row.shipDate,
     clientCode    |-> parent_row.clientCode,
     notice        |-> Or(resolve_field(config, child_master, "notice"),
                          parent_row.notice),
     productCode   |-> child_code_raw,
     location      |-> LocationOf(child_master, master_location_column),
     quantity      |-> _display_quantity(computed[1]),
     itemType      |-> Or(Get(child, "itemType", <<>>),
                          Or(resolve_field(config, child_master, "itemType"),
                             parent_row.itemType)),
     productName   |-> Or(Get(child, "productName", <<>>),
                          Or(resolve_field(config, child_master, "productName"),
                             child_code_raw)),
     orderNumber   |-> parent_row.orderNumber,
     no            |-> NatToText(parent_index) \o <<"-">> \o NatToText(child_idx),
     sequence      |-> sequence_counter,
     qr_path       |-> <<>>,
     is_child      |-> TRUE,
     parent_no     |-> parent_row.no,
     child_index   |-> child_idx,
     quantity_note |-> computed[2],
     unit          |-> Get(child, "unit", <<>>)]

\* child_master = master_lookup.get(child_code_key, {})
ChildMaster(master_lookup, child_code_raw) ==
    Get(master_lookup, _normalize_code_value(child_code_raw), EmptyDict)

\* ChildRow with the sequence number of the parent kept for its children.
ChildRow_parent_sequence(config, child, child_idx, parent_row, master_lookup, master_location_column, parent_index, sequence_counter) ==
    ChildRowOf(config, child, child_idx, parent_row,
               normalize_value(Get(child, "productCode", <<>>)),
               ChildMaster(master_lookup, normalize_value(Get(child, "productCode", <<>>))),
               master_location_column, parent_index, parent_row.sequence,
               _compute_child_quantity(parent_row.quantity, Get(child, "baseQuantity", <<>>)))

\* ChildRow numbering the children from 0 in "no".
ChildRow_zero_based_no(config, child, child_idx, parent_row, master_lookup, master_location_column, parent_index, sequence_counter) ==
    [ChildRowOf(config, child, child_idx, parent_row,
                normalize_value(Get(child, "productCode", <<>>)),
                ChildMaster(master_lookup, normalize_value(Get(child, "productCode", <<>>))),
                master_location_column, parent_index, sequence_counter,
                _compute_child_quantity(parent_row.quantity, Get(child, "baseQuantity", <<>>)))
     EXCEPT !.no = NatToText(parent_index) \o <<"-">> \o NatToText(child_idx - 1)]

\* ChildRow taking a missing product name from the parent row.
ChildRow_parent_name(config, child, child_idx, parent_row, master_lookup, master_location_column, parent_index, sequence_counter) ==
    [ChildRowOf(config, child, child_idx, parent_row,
                normalize_value(Get(child, "productCode", <<>>)),
                ChildMaster(master_lookup, normalize_value(Get(child, "productCode", <<>>))),
                master_location_column, parent_index, sequence_counter,
                _compute_child_quantity(parent_row.quantity, Get(child, "baseQuantity", <<>>)))
     EXCEPT !.productName =
         Or(Get(child, "productName", <<>>),
            Or(resolve_field(config,
                             ChildMaster(master_lookup,
                                         normalize_value(Get(child, "productCode", <<>>))),
                             "productName"),
               parent_row.productName))]

\* ChildRow without the fallback to the parent's itemType and notice.
ChildRow_no_inheritance(config, child, child_idx, parent_row, master_lookup, master_location_column, parent_index, sequence_counter) ==
    [ChildRowOf(config, child, child_idx, parent_row,
                normalize_value(Get(child, "productCode", <<>>)),
                ChildMaster(master_lookup, normalize_value(Get(child, "productCode", <<>>))),
                master_location_column, parent_index, sequence_counter,
                _compute_child_quantity(parent_row.quantity, Get(child, "baseQuantity", <<>>)))
     EXCEPT !.itemType =
                Or(Get(child, "itemType", <<>>),
                   resolve_field(config,
                                 ChildMaster(master_lookup,
                                             normalize_value(Get(child, "productCode", <<>>))),
                                 "itemType")),
            !.notice =
                resolve_field(config,
                              ChildMaster(master_lookup,
                                          normalize_value(Get(child, "productCode", <<>>))),
                              "notice")]

\* The child PickingRow of one BOM entry.
ChildRow(config, child, child_idx, parent_row, master_lookup, master_location_column, parent_index, sequence_counter) ==
    ChildRowOf(config, child, child_idx, parent_row,
               normalize_value(Get(child, "productCode", <<>>)),
               ChildMaster(master_lookup, normalize_value(Get(child, "productCode", <<>>))),
               master_location_column, parent_index, sequence_counter,
               _compute_child_quantity(parent_row.quantity, Get(child, "baseQuantity", <<>>)))

\* bom_lookup or {}
LookupOrEmpty(bom_lookup) ==
    IF bom_lookup.given /\ DOMAIN bom_lookup.dict # {} THEN bom_lookup.dict ELSE EmptyDict

----------------------------------------------------------------------------
(* paginate *)

Min(a, b) == IF a <= b THEN a ELSE b

\* The pages range(idx, len(rows), per_page) yields, idx 0-based.
RECURSIVE PagesFrom(_, _, _)
PagesFrom(rs, idx, per_page) ==
    IF idx >= Len(rs) THEN <<>>
    ELSE <<SubSeq(rs, idx + 1, Min(idx + per_page, Len(rs)))>>
             \o PagesFrom(rs, idx + per_page, per_page)

\* paginate dropping a final page that is not full.
paginate_full_pages_only(rs, per_page) ==
    PagesFrom(SubSeq(rs, 1, (Len(rs) \div per_page) * per_page), 0, per_page)

paginate(rs, per_page) == PagesFrom(rs, 0, per_page)

----------------------------------------------------------------------------
(* Configuration and input tables of the model *)

ColCode   == <<"c", "o", "d", "e">>
ColQty    == <<"q", "t", "y">>
ColClient == <<"c", "l", "i">>
ColDate   == <<"d", "a", "y">>
ColName   == <<"n", "a", "m", "e">>
ColType   == <<"t", "y", "p", "e">>
ColOrder  == <<"o", "r", "d">>
ColNotice == <<"n", "o", "t", "e">>
ColLoc    == <<"l", "o", "c">>
Filler(i) == <<"f", DigitChar(i)>>

BomParent == <<"p", "k">>
BomChild  == <<"c", "k">>
BomName   == <<"c", "n">>
BomQty    == <<"b", "q">>
BomSeq    == <<"s", "q">>
BomUnit   == <<"u", "n">>
BomType   == <<"c", "t">>

\* The PipelineConfig of the run: the join key (written with the stray
\* whitespace a hand-edited file may hold) and the field mapping.
Config ==
    [join_key |-> <<" ", "c", "o", "d", "e">>,
     mapping  |-> [productCode |-> <<ColCode>>,
                   quantity    |-> <<ColQty>>,
                   shipDate    |-> <<ColDate>>,
                   clientCode  |-> <<ColClient>>,
                   notice      |-> <<ColNotice>>,
                   itemType    |-> <<ColType>>,
                   productName |-> <<ColName \o <<"idsp">> >>,
                   orderNumber |-> <<ColOrder>>]]

\* The BomConfig of the run (every optional column configured).
BomCfg ==
    [parent_key |-> BomParent, child_key |-> BomChild, child_name |-> BomName,
     quantity |-> BomQty, sequence |-> BomSeq, unit |-> BomUnit, child_type |-> BomType]

SeqsUpTo(S, n) == UNION {[1..k -> S] : k \in 0..n}

\* Bounds of the model
MaxShip == 2
MaxBom == 3
MaxPerPage == 3

ShipColumns == <<ColCode, ColQty, ColClient, ColDate>>

ShipRow(code, qty) ==
    [c \in {ColCode, ColQty, ColClient, ColDate} |->
        CASE c = ColCode -> code
          [] c = ColQty -> qty
          [] c = ColClient -> <<"K", "1">>
          [] c = ColDate -> <<"D", "1">>]

ShipFrame(rs) == [columns |-> ShipColumns, rows |-> rs]

\* Master layouts: the 6 columns of the tests; 11 columns with the location
\* last; 12 columns with the location sixth.
Layout6 == <<ColCode, ColName, ColType, ColOrder, ColNotice, ColLoc>>
Layout11 ==
    <<ColCode, ColName, ColType, ColOrder, ColNotice,
      Filler(1), Filler(2), Filler(3), Filler(4), Filler(5), ColLoc>>
Layout12 ==
    <<ColCode, ColName, ColType, ColOrder, ColNotice, ColLoc,
      Filler(1), Filler(2), Filler(3), Filler(4), Filler(5), Filler(6)>>
MasterLayouts == {Layout6, Layout11, Layout12}

\* A master row given as <<code, name, type, order, notice, location>>.
MasterRow(layout, m) ==
    [c \in {layout[i] : i \in DOMAIN layout} |->
        CASE c = ColCode -> m[1]
          [] c = ColName -> m[2]
          [] c = ColType -> m[3]
          [] c = ColOrder -> m[4]
          [] c = ColNotice -> m[5]
          [] c = ColLoc -> m[6]
          [] OTHER -> <<>>]

MasterFrame(layout, ms) ==
    [columns |-> layout, rows |-> [i \in DOMAIN ms |-> MasterRow(layout, ms[i])]]

mA  == << <<"A">>, <<"P", "A">>, <<"T", "A">>, <<"O", "A">>, <<"N", "A">>, <<"L", "A">> >>
mA2 == << <<"A">>, <<"P", "B">>, <<>>, <<>>, <<>>, <<"L", "B">> >>
mFw == << <<"fwA">>, <<"P", "F">>, <<"T", "F">>, <<>>, <<"N", "F">>, <<"L", "F">> >>
mC  == << <<"C">>, <<"P", "C">>, <<"T", "C">>, <<>>, <<"N", "C">>, <<"L", "C">> >>
mC0 == << <<"C">>, <<>>, <<>>, <<>>, <<>>, <<>> >>
mBlank == << <<"idsp">>, <<"P", "X">>, <<>>, <<>>, <<>>, <<"L", "X">> >>
mD  == << <<"D", " ">>, <<"P", "D">>, <<>>, <<>>, <<>>, <<"L", "D">> >>

MasterTables ==
    { <<>>, <<mA>>, <<mA, mC, mD>>, <<mA, mA2>>, <<mFw, mC0>>, <<mC, mA, mC0>>, <<mC0, mBlank, mC>> }

\* A BOM row given as <<parent, child, name, quantity, sequence, unit, type>>.
BomRow(b) ==
    [c \in {BomParent, BomChild, BomName, BomQty, BomSeq, BomUnit, BomType} |->
        CASE c = BomParent -> b[1]
          [] c = BomChild -> b[2]
          [] c = BomName -> b[3]
          [] c = BomQty -> b[4]
          [] c = BomSeq -> b[5]
          [] c = BomUnit -> b[6]
          [] c = BomType -> b[7]]

BomFrame(bs) ==
    [columns |-> <<BomParent, BomSeq, BomChild, BomName, BomQty, BomUnit, BomType>>,
     rows    |-> [i \in DOMAIN bs |-> BomRow(bs[i])]]

\* The BOM of the join scenarios: A is made of C (named by the BOM, third
\* by sequence), of D (second) and of C again (first).
BomJoin ==
    << << <<"A">>, <<"C">>, <<"B", "C">>, <<"3">>, <<"2", "0">>, <<"P", "C">>, <<"T", "B">> >>,
       << <<"A">>, <<"D">>, <<>>, <<"0", ".", "5">>, <<"1", "0">>, <<"P", "C">>, <<>> >>,
       << <<"fwA">>, <<"C">>, <<>>, <<"x">>, <<"9">>, <<>>, <<>> >> >>

ShipCodes == { <<"A">>, <<"A", " ">>, <<"B">> }

\* Shipment rows of the join scenarios.
ShipRowsJoin ==
    {ShipRow(c, <<"2">>) : c \in ShipCodes} \cup {ShipRow(<<"B">>, <<"sNaN">>)}

\* BOM rows of the BOM scenarios: sequences that are integers, are not, are
\* equal, are empty; a parent in fullwidth form; a child that is a parent.
BomChoices ==
    { << <<"A">>, <<"C">>, <<"B", "C">>, <<"3">>, <<"2", "0">>, <<"P", "C">>, <<"T", "B">> >>,
      << <<"A">>, <<"D">>, <<>>, <<"0", ".", "5">>, <<"1", "0">>, <<"P", "C">>, <<>> >>,
      << <<"A">>, <<"C">>, <<>>, <<"1">>, <<"x">>, <<>>, <<>> >>,
      << <<"A">>, <<"B">>, <<>>, <<"1">>, <<>>, <<>>, <<>> >>,
      << <<"A">>, <<"D">>, <<>>, <<"2">>, <<"9">>, <<>>, <<>> >>,
      << <<"fwA">>, <<"C">>, <<>>, <<"2">>, <<"1", "0">>, <<>>, <<>> >>,
      << <<"A">>, <<"D">>, <<>>, <<"1">>, <<" ", "1", "0">>, <<"K", "G">>, <<>> >>,
      << <<"B">>, <<"A">>, <<>>, <<"4">>, <<"-", "1">>, <<>>, <<>> >> }

\* Quantity cells of the quantity scenarios.
QtyTexts ==
    { <<>>, <<"2">>, <<"3">>, <<"0", ".", "5">>, <<"2", ".", "5", "0">>, <<"1", ",", "0", "0", "0">>,
      <<"a", "b", "c">>, <<"3", "k", "g">>, <<"1", ".", "2", ".", "3">>, <<"-", "2">>,
      <<"0">>, <<".", "5">>, <<"-">>, <<"NaN">>, <<"Inf">>, <<"sNaN">> }

----------------------------------------------------------------------------
(* The run: run_pipeline from the loaded tables on, join_and_map unrolled   *)
(* into the iterations of its two loops.                                    *)

NoRow == ParentRow(Config, EmptyDict, None, 0, 0)

\* State of a run before it starts, for the given inputs.
Start(s, m, b, u, k) ==
    /\ shipment = s
    /\ master = m
    /\ bomData = b
    /\ useBom = u
    /\ perPage = k
    /\ pc = "start"
    /\ bomLookup = [given |-> FALSE, dict |-> EmptyDict]
    /\ masterLookup = EmptyDict
    /\ merged = <<>>
    /\ locationColumn = None
    /\ rowIdx = 0
    /\ children = <<>>
    /\ childIdx = 0
    /\ parentIndex = 0
    /\ sequenceCounter = 0
    /\ rows = <<>>
    /\ parentRow = NoRow
    /\ pages = <<>>

\* Join scenarios: shipments against every master table and layout.
InitJoin ==
    \E rs \in SeqsUpTo(ShipRowsJoin, MaxShip), ms \in MasterTables,
       layout \in MasterLayouts, u \in BOOLEAN :
        Start(ShipFrame(rs), MasterFrame(layout, ms), BomFrame(BomJoin), u, 2)

\* BOM scenarios: every BOM table of up to MaxBom rows.
InitBom ==
    \E bs \in SeqsUpTo(BomChoices, MaxBom) :
        Start(ShipFrame(<<ShipRow(<<"A">>, <<"2">>), ShipRow(<<"B">>, <<"3">>)>>),
              MasterFrame(Layout11, <<mA, mC>>), BomFrame(bs), TRUE, 2)

\* BOM rows with blank codes: a child of one space, a child of one
\* width-form space, a parent of one space, beside a row with both codes.
BomBlankChoices ==
    { << <<"A">>, <<" ">>, <<>>, <<"1">>, <<"1">>, <<>>, <<>> >>,
      << <<"A">>, <<"idsp">>, <<"B", "X">>, <<"1">>, <<"2">>, <<>>, <<>> >>,
      << <<" ">>, <<"C">>, <<>>, <<"1">>, <<"3">>, <<>>, <<>> >>,
      << <<"A">>, <<"C", " ">>, <<>>, <<"1">>, <<"4">>, <<>>, <<>> >> }

\* Blank-code scenarios: every BOM table of up to MaxBom such rows.
InitBlank ==
    \E bs \in SeqsUpTo(BomBlankChoices, MaxBom) :
        Start(ShipFrame(<<ShipRow(<<"A">>, <<"2">>)>>),
              MasterFrame(Layout11, <<mA, mC>>), BomFrame(bs), TRUE, 2)

\* Quantity scenarios: one parent and one child, every pair of cells.
InitQty ==
    \E q \in QtyTexts, bq \in QtyTexts :
        Start(ShipFrame(<<ShipRow(<<"A">>, q)>>), MasterFrame(Layout11, <<mA, mC>>),
              BomFrame(<< << <<"A">>, <<"C">>, <<>>, bq, <<"1">>, <<"P", "C">>, <<>> >> >>),
              TRUE, 2)

\* Pagination scenarios: every page size.
InitPages ==
    \E rs \in SeqsUpTo({ShipRow(<<"A">>, <<"2">>), ShipRow(<<"B">>, <<"1">>)}, MaxShip),
       k \in 1..MaxPerPage :
        Start(ShipFrame(rs), MasterFrame(Layout6, <<mA>>), BomFrame(BomJoin), TRUE, k)

\* Only the pipeline runs.
OutsideIdle == loader = Idle /\ resolver = Idle /\ invocations = Idle /\ ui = Idle

Init == (InitJoin \/ InitBom \/ InitBlank \/ InitQty \/ InitPages) /\ OutsideIdle

\* run_pipeline: the BOM table, when given, becomes the BomLookup.
BuildBomLookup ==
    /\ pc = "start"
    /\ bomLookup' = IF useBom
                    THEN [given |-> TRUE, dict |-> build_bom_lookup(bomData, BomCfg)]
                    ELSE [given |-> FALSE, dict |-> EmptyDict]
    /\ pc' = "loaded"
    /\ UNCHANGED <<outside, inputs, masterLookup, merged, locationColumn, rowIdx, children,
                   childIdx, parentIndex, sequenceCounter, rows, parentRow, pages>>

\* join_and_map up to its loop: the master lookup, the merge, the counters
\* and the location column.
JoinStart ==
    /\ pc = "loaded"
    /\ IF MergeRaises(shipment, master, _clean_column(Config.join_key))
       THEN /\ pc' = "raised"
            /\ UNCHANGED <<masterLookup, merged, locationColumn, rowIdx,
                           parentIndex, sequenceCounter, rows>>
       ELSE /\ masterLookup' = _build_master_lookup(master, _clean_column(Config.join_key))
            /\ merged' = Merge(shipment, master, _clean_column(Config.join_key))
            /\ rows' = <<>>
            /\ parentIndex' = 1
            /\ sequenceCounter' = 1
            /\ locationColumn' = MasterLocationColumn(master)
            /\ rowIdx' = 1
            /\ pc' = "row"
    /\ UNCHANGED <<outside, inputs, bomLookup, children, childIdx, parentRow, pages>>

\* The entries of a parent followed by the entries of its first child.
Children_expanded(lookup, parent_code_key) ==
    Get(lookup, parent_code_key, <<>>)
        \o (IF Get(lookup, parent_code_key, <<>>) = <<>> THEN <<>>
            ELSE Get(lookup,
                     _normalize_code_value(Get(lookup, parent_code_key, <<>>)[1].productCode),
                     <<>>))

\* children = lookup.get(parent_code_key, [])
Children(lookup, parent_code_key) == Get(lookup, parent_code_key, <<>>)

\* rows.append(parent_row) and the lookup of its children.
AppendParent(parent_row) ==
    /\ rows' = Append(rows, parent_row)
    /\ sequenceCounter' = sequenceCounter + 1
    /\ parentRow' = parent_row
    /\ children' = Children(LookupOrEmpty(bomLookup),
                            _normalize_code_value(parent_row.productCode))
    /\ childIdx' = 1
    /\ pc' = "child"

\* One iteration of the outer loop up to the inner loop: the parent row.
EmitParent ==
    /\ pc = "row"
    /\ rowIdx <= Len(merged)
    /\ IF ParentRaises(Config, FillNa(merged[rowIdx]))
       THEN /\ pc' = "raised"
            /\ UNCHANGED <<rows, sequenceCounter, parentRow, children, childIdx>>
       ELSE AppendParent(ParentRow(Config, FillNa(merged[rowIdx]), locationColumn,
                                   parentIndex, sequenceCounter))
    /\ UNCHANGED <<outside, inputs, bomLookup, masterLookup, merged, locationColumn, rowIdx,
                   parentIndex, pages>>

\* One iteration of the inner loop: a child row.
EmitChild ==
    /\ pc = "child"
    /\ childIdx <= Len(children)
    /\ IF ChildRaises(children[childIdx], parentRow)
       THEN /\ pc' = "raised"
            /\ UNCHANGED <<rows, sequenceCounter, childIdx>>
       ELSE /\ rows' = Append(rows, ChildRow(Config, children[childIdx], childIdx, parentRow,
                                             masterLookup, locationColumn, parentIndex,
                                             sequenceCounter))
            /\ sequenceCounter' = sequenceCounter + 1
            /\ childIdx' = childIdx + 1
            /\ pc' = "child"
    /\ UNCHANGED <<outside, inputs, bomLookup, masterLookup, merged, locationColumn, rowIdx,
                   children, parentIndex, parentRow, pages>>

\* The end of an iteration of the outer loop.
AdvanceParent ==
    /\ pc = "child"
    /\ childIdx > Len(children)
    /\ parentIndex' = parentIndex + 1
    /\ rowIdx' = rowIdx + 1
    /\ pc' = "row"
    /\ UNCHANGED <<outside, inputs, bomLookup, masterLookup, merged, locationColumn, children,
                   childIdx, sequenceCounter, rows, parentRow, pages>>

\* join_and_map returns rows.
Return ==
    /\ pc = "row"
    /\ rowIdx > Len(merged)
    /\ pc' = "returned"
    /\ UNCHANGED <<outside, inputs, bomLookup, masterLookup, merged, locationColumn, rowIdx,
                   children, childIdx, parentIndex, sequenceCounter, rows, parentRow, pages>>

\* run_pipeline: pages = paginate(rows, items_per_page)
Paginate ==
    /\ pc = "returned"
    /\ pages' = paginate(rows, perPage)
    /\ pc' = "done"
    /\ UNCHANGED <<outside, inputs, bomLookup, masterLookup, merged, locationColumn, rowIdx,
                   children, childIdx, parentIndex, sequenceCounter, rows, parentRow>>

Next ==
    \/ BuildBomLookup
    \/ JoinStart
    \/ EmitParent
    \/ EmitChild
    \/ AdvanceParent
    \/ Return
    \/ Paginate

Spec == Init /\ [][Next]_vars

----------------------------------------------------------------------------
(* Properties *)

\* join_and_map has returned its row list.
Returned == pc \in {"returned", "done"}

\* Position of the nearest parent row at or before position i of rows.
ParentBefore(i) ==
    CHOOSE j \in 1..i : ~rows[j].is_child /\ \A m \in (j + 1)..i : rows[m].is_child

\* The BomLookup entries join_and_map reads for a parent row.
EntriesOf(parent_row) ==
    Get(LookupOrEmpty(bomLookup), _normalize_code_value(parent_row.productCode), <<>>)

\* Positions of the parent rows, and the number of parents among rows.
ParentPositions == {i \in DOMAIN rows : ~rows[i].is_child}

\* C1: the returned list of length N carries the sequence values 1..N, the
\* row at position i having sequence i, parents and children together.
C1_SequenceDense ==
    Returned => \A i \in DOMAIN rows : rows[i].sequence = i

C1_Witness ==
    /\ Returned
    /\ Len(rows) >= 5
    /\ Cardinality(ParentPositions) >= 2
    /\ \E i \in DOMAIN rows : rows[i].is_child
    /\ \A i \in DOMAIN rows : rows[i].sequence = i

\* C2: in the returned list every child row follows a parent row, carries
\* the no of the nearest preceding parent as parent_no, has
\* no = parent_no-child_index, and the children behind one parent have
\* child_index 1..k without a gap, one per entry of the parent's sorted
\* BomLookup list and in that order.
C2_ChildNumbering ==
    Returned =>
        /\ \A i \in DOMAIN rows : rows[i].is_child =>
              /\ \E j \in 1..(i - 1) : ~rows[j].is_child
              /\ rows[i].parent_no = rows[ParentBefore(i)].no
              /\ rows[i].child_index = i - ParentBefore(i)
              /\ rows[i].no = rows[i].parent_no \o <<"-">> \o NatToText(rows[i].child_index)
              /\ rows[i].child_index <= Len(EntriesOf(rows[ParentBefore(i)]))
              /\ rows[i].productCode =
                    EntriesOf(rows[ParentBefore(i)])[rows[i].child_index].productCode
              /\ rows[i].unit = EntriesOf(rows[ParentBefore(i)])[rows[i].child_index].unit
        /\ \A p \in ParentPositions :
              \A c \in 1..Len(EntriesOf(rows[p])) :
                  p + c <= Len(rows) /\ rows[p + c].is_child /\ rows[p + c].child_index = c

C2_Witness ==
    /\ Returned
    /\ \E i \in DOMAIN rows :
          /\ rows[i].is_child
          /\ rows[i].child_index = 3
          /\ rows[i].no = <<"2", "-", "3">>
          /\ rows[i].parent_no = <<"2">>
          /\ rows[i].productCode # rows[i - 1].productCode

RECURSIVE Concat(_)
Concat(ps) == IF ps = <<>> THEN <<>> ELSE ps[1] \o Concat(Tail(ps))

\* C4: the pages of paginate(rows, k), k >= 1, concatenate to rows; every
\* page but the last has k rows, the last has 1..k rows, no rows give no
\* page, and there are ceil(N/k) pages.
C4_Paginate ==
    pc = "done" =>
        /\ Concat(pages) = rows
        /\ \A i \in 1..(Len(pages) - 1) : Len(pages[i]) = perPage
        /\ pages # <<>> => Len(pages[Len(pages)]) \in 1..perPage
        /\ rows = <<>> => pages = <<>>
        /\ Len(pages) = (Len(rows) + perPage - 1) \div perPage

C4_Witness ==
    /\ pc = "done"
    /\ perPage >= 2
    /\ Len(pages) >= 3
    /\ Len(pages[Len(pages)]) < perPage

\* The position in rows of the i-th parent row.
NthParent(i) ==
    CHOOSE p \in ParentPositions : Cardinality({q \in ParentPositions : q <= p}) = i

JoinKey == _clean_column(Config.join_key)

\* C3: the returned list holds exactly one parent row per shipment row, in
\* shipment order: S parent rows for S shipment rows, the i-th parent having
\* no = str(i) and the product code and quantity of the i-th shipment row.
C3_OneBlockPerShipmentRow ==
    Returned =>
        /\ Cardinality(ParentPositions) = Len(shipment.rows)
        /\ \A i \in 1..Len(shipment.rows) :
              /\ rows[NthParent(i)].no = NatToText(i)
              /\ rows[NthParent(i)].productCode = shipment.rows[i][JoinKey]
              /\ rows[NthParent(i)].quantity = _display_quantity(shipment.rows[i][ColQty])

\* What the claim says of one child row, given the displayed quantity of
\* its parent and the base quantity of its BOM entry.
QuantityAsClaimed(row, parent_qty, base) ==
    IF _parse_decimal(base) = NoDecimal
    THEN row.quantity = base /\ row.quantity_note = <<>>
    ELSE IF _parse_decimal(parent_qty) = NoDecimal
    THEN row.quantity = _format_decimal(_parse_decimal(base)) /\ row.quantity_note = <<>>
    ELSE /\ row.quantity = _format_decimal(Multiply(_parse_decimal(parent_qty),
                                                    _parse_decimal(base)))
         /\ row.quantity_note = _format_decimal(_parse_decimal(parent_qty))
                                    \o <<" ", "×", " ">>
                                    \o _format_decimal(_parse_decimal(base))

\* The examples of the claim: parent 2 with bases 3 and 0.5; parent abc
\* with base 0.5.
QuantityExamples(row, parent_qty, base) ==
    /\ (parent_qty = <<"2">> /\ base = <<"3">>) =>
           row.quantity = <<"6">> /\ row.quantity_note = <<"2", " ", "×", " ", "3">>
    /\ (parent_qty = <<"2">> /\ base = <<"0", ".", "5">>) =>
           row.quantity = <<"1">>
           /\ row.quantity_note = <<"2", " ", "×", " ", "0", ".", "5">>
    /\ (parent_qty = <<"a", "b", "c">> /\ base = <<"0", ".", "5">>) =>
           row.quantity = <<"0", ".", "5">> /\ row.quantity_note = <<>>

BaseOf(i) == EntriesOf(rows[ParentBefore(i)])[rows[i].child_index].baseQuantity

\* C5: a child row's quantity and note are those of
\* computeChildQuantity(parent's displayed quantity, base quantity): the
\* formatted product and the note "parent × base" when both parse, the
\* formatted base and no note when only the base parses, the raw base text
\* and no note when the base does not parse.
C5_ChildQuantity ==
    Returned =>
        \A i \in DOMAIN rows : rows[i].is_child =>
            /\ QuantityAsClaimed(rows[i], rows[ParentBefore(i)].quantity, BaseOf(i))
            /\ QuantityExamples(rows[i], rows[ParentBefore(i)].quantity, BaseOf(i))

C5_Witness ==
    /\ Returned
    /\ \E i \in DOMAIN rows :
          /\ rows[i].is_child
          /\ rows[ParentBefore(i)].quantity = <<"2", ".", "5">>
          /\ BaseOf(i) = <<"3", "k", "g">>
          /\ rows[i].quantity = <<"7", ".", "5">>
          /\ rows[i].quantity_note = <<"2", ".", "5", " ", "×", " ", "3">>

\* The entries of the BOM table under parent key k, in source order.
SourceEntries(k) ==
    LET sel == SelectSeq(bomData.rows,
                         LAMBDA r : _normalize_code_value(r[BomParent]) = k
                                    /\ r[BomChild] # <<>>)
    IN  [i \in DOMAIN sel |-> BomEntry(sel[i], BomCfg)]

Perms(n) == {f \in [1..n -> 1..n] : \A i, j \in 1..n : i # j => f[i] # f[j]}

\* Two entries in the order the claim allows.
InClaimedOrder(a, b) ==
    IF IntParses(a.sequence) /\ IntParses(b.sequence)
    THEN IntOf(a.sequence) <= IntOf(b.sequence)
    ELSE IF IntParses(a.sequence) THEN TRUE
    ELSE IF IntParses(b.sequence) THEN FALSE
    ELSE ~TextLess(b.sequence, a.sequence)

SameSortKey(a, b) == InClaimedOrder(a, b) /\ InClaimedOrder(b, a)

\* C6: every list of the BomLookup holds the BOM rows of its parent with
\* the integer sequences first in ascending numeric order, then the other
\* sequences in lexical order, entries of equal key in source-row order.
C6_BomSorted ==
    (pc = "loaded" /\ useBom) =>
        \A k \in DOMAIN bomLookup.dict :
            /\ Len(bomLookup.dict[k]) = Len(SourceEntries(k))
            /\ \A i, j \in DOMAIN bomLookup.dict[k] :
                  i < j => InClaimedOrder(bomLookup.dict[k][i], bomLookup.dict[k][j])
            /\ \E f \in Perms(Len(bomLookup.dict[k])) :
                  /\ \A i \in DOMAIN f : bomLookup.dict[k][i] = SourceEntries(k)[f[i]]
                  /\ \A i, j \in DOMAIN f :
                        (i < j /\ SameSortKey(bomLookup.dict[k][i], bomLookup.dict[k][j]))
                            => f[i] < f[j]

SequencesOf(entries) == [i \in DOMAIN entries |-> entries[i].sequence]

C6_Witness ==
    /\ pc = "loaded"
    /\ useBom
    /\ <<"A">> \in DOMAIN bomLookup.dict
    /\ SequencesOf(SourceEntries(<<"A">>)) = << <<"2", "0">>, <<"1", "0">>, <<"x">> >>
    /\ SequencesOf(bomLookup.dict[<<"A">>]) = << <<"1", "0">>, <<"2", "0">>, <<"x">> >>

C6_WitnessTie ==
    /\ pc = "loaded"
    /\ useBom
    /\ <<"A">> \in DOMAIN bomLookup.dict
    /\ SequencesOf(SourceEntries(<<"A">>)) = << <<"x">>, <<" ", "1", "0">>, <<"1", "0">> >>
    /\ SequencesOf(bomLookup.dict[<<"A">>]) = << <<" ", "1", "0">>, <<"1", "0">>, <<"x">> >>

\* The rows of the master table whose join-key value normalizes to the
\* same key as the given code.
MasterMatches(code) ==
    {i \in DOMAIN master.rows :
        _normalize_code_value(master.rows[i][JoinKey]) = _normalize_code_value(code)}

\* The master-side fields of a parent row are those of master row i.
MasterFieldsFrom(row, i) ==
    /\ row.productName = normalize_value(master.rows[i][ColName])
    /\ row.itemType = normalize_value(master.rows[i][ColType])
    /\ row.orderNumber = normalize_value(master.rows[i][ColOrder])
    /\ row.notice = normalize_value(master.rows[i][ColNotice])

MasterFieldsEmpty(row) ==
    /\ row.productName = <<>>
    /\ row.itemType = <<>>
    /\ row.orderNumber = <<>>
    /\ row.notice = <<>>
    /\ row.location = <<>>

\* C7: the join is on the normalized join key: a parent row whose shipment
\* key normalizes to the key of a master row carries the fields of such a
\* master row; a parent row without such a master row has empty master-side
\* fields.
C7_NormalizedJoin ==
    Returned =>
        \A p \in ParentPositions :
            IF MasterMatches(rows[p].productCode) = {}
            THEN MasterFieldsEmpty(rows[p])
            ELSE \E i \in MasterMatches(rows[p].productCode) : MasterFieldsFrom(rows[p], i)

\* A shipment row without a master row of its normalized key, or without a
\* BomLookup entry of its normalized product code.
NoMasterMatch(code) == MasterMatches(code) = {}

NoBomEntry(code) ==
    _normalize_code_value(code) \notin DOMAIN LookupOrEmpty(bomLookup)

Unmatched(code) == NoMasterMatch(code) \/ NoBomEntry(code)

\* The parent row of an unmatched shipment row: empty master-side fields
\* without a master row, no child behind it without a BomLookup entry; and
\* the numbering of the list is dense.
UnmatchedDegrade ==
    Returned =>
        /\ \A p \in ParentPositions :
              /\ NoMasterMatch(rows[p].productCode) => MasterFieldsEmpty(rows[p])
              /\ NoBomEntry(rows[p].productCode) =>
                     (p = Len(rows) \/ ~rows[p + 1].is_child)
        /\ \A i \in DOMAIN rows : rows[i].sequence = i
        /\ \A j \in 1..Cardinality(ParentPositions) : rows[NthParent(j)].no = NatToText(j)

\* C8: a shipment row without a matching master row or without a BomLookup
\* entry (or with no BomLookup given) still produces its parent row and the
\* run does not fail: the parent has empty master-side fields, no child rows,
\* and the numbering continues without a gap.
C8_UnmatchedRowsDegrade ==
    /\ (\E i \in DOMAIN shipment.rows : Unmatched(shipment.rows[i][JoinKey]))
           => pc # "raised"
    /\ Returned =>
           \A i \in DOMAIN shipment.rows :
               Unmatched(shipment.rows[i][JoinKey]) =>
                   \E p \in ParentPositions :
                       rows[p].productCode = normalize_value(shipment.rows[i][JoinKey])
    /\ UnmatchedDegrade

\* The master record of a child row: the last master row of the child's
\* normalized code.
ChildRecords(i) == MasterMatches(rows[i].productCode)

LastOf(S) == CHOOSE i \in S : \A j \in S : j <= i

\* C9: a child row's location is the location of the child's own master
\* record, empty only when the child has no master record or the record has
\* no location, whatever the number and order of the master's columns.
C9_ChildLocation ==
    Returned =>
        \A i \in DOMAIN rows : rows[i].is_child =>
            rows[i].location =
                (IF ChildRecords(i) = {} THEN <<>>
                 ELSE normalize_value(master.rows[LastOf(ChildRecords(i))][ColLoc]))

\* The product name resolved from the child's own master record.
MasterNameOf(i) ==
    IF ChildRecords(i) = {} THEN <<>>
    ELSE normalize_value(master.rows[LastOf(ChildRecords(i))][ColName])

BomNameOf(i) == EntriesOf(rows[ParentBefore(i)])[rows[i].child_index].productName

\* C10 as stated: a child row's productName is the BOM-provided name when
\* non-empty, otherwise the name of the child's own master record, otherwise
\* the empty string.
C10_NameOrEmpty ==
    Returned =>
        \A i \in DOMAIN rows : rows[i].is_child =>
            rows[i].productName = Or(BomNameOf(i), Or(MasterNameOf(i), <<>>))

\* C10: a child row's productName is the BOM-provided name when non-empty,
\* otherwise the name of the child's own master record when non-empty,
\* otherwise the child's own product code; never a value of the parent row.
C10_NameOrCode ==
    Returned =>
        \A i \in DOMAIN rows : rows[i].is_child =>
            rows[i].productName = Or(BomNameOf(i), Or(MasterNameOf(i), rows[i].productCode))

C10_Witness ==
    /\ Returned
    /\ \E i \in DOMAIN rows :
          /\ rows[i].is_child
          /\ BomNameOf(i) = <<>>
          /\ MasterNameOf(i) = <<>>
          /\ rows[i].productName = <<"D">>
          /\ rows[ParentBefore(i)].productName = <<"P", "A">>
    /\ \E i \in DOMAIN rows :
          /\ rows[i].is_child
          /\ BomNameOf(i) = <<"B", "C">>
          /\ MasterNameOf(i) = <<"P", "C">>
          /\ rows[i].productName = <<"B", "C">>
    /\ \E i \in DOMAIN rows :
          /\ rows[i].is_child
          /\ BomNameOf(i) = <<>>
          /\ MasterNameOf(i) = <<"P", "C">>
          /\ rows[i].productName = <<"P", "C">>

\* The itemType and the notice of the child's own master record.
MasterTypeOf(i) ==
    IF ChildRecords(i) = {} THEN <<>>
    ELSE normalize_value(master.rows[LastOf(ChildRecords(i))][ColType])

MasterNoticeOf(i) ==
    IF ChildRecords(i) = {} THEN <<>>
    ELSE normalize_value(master.rows[LastOf(ChildRecords(i))][ColNotice])

BomTypeOf(i) == EntriesOf(rows[ParentBefore(i)])[rows[i].child_index].itemType

\* C11: a child row's itemType is the first non-empty of the BOM child type,
\* the itemType of the child's own master record and the parent row's
\* itemType; its notice is the first non-empty of the notice of its own
\* master record and the parent row's notice; a child without master record
\* and without BOM type carries its parent's notice and itemType.
C11_TypeAndNotice ==
    Returned =>
        \A i \in DOMAIN rows : rows[i].is_child =>
            /\ rows[i].itemType =
                   Or(BomTypeOf(i), Or(MasterTypeOf(i), rows[ParentBefore(i)].itemType))
            /\ rows[i].notice = Or(MasterNoticeOf(i), rows[ParentBefore(i)].notice)
            /\ (ChildRecords(i) = {} /\ BomTypeOf(i) = <<>>) =>
                   /\ rows[i].itemType = rows[ParentBefore(i)].itemType
                   /\ rows[i].notice = rows[ParentBefore(i)].notice

C11_Witness ==
    /\ Returned
    /\ \E i \in DOMAIN rows :
          /\ rows[i].is_child
          /\ BomTypeOf(i) = <<"T", "B">>
          /\ MasterTypeOf(i) = <<"T", "C">>
          /\ rows[i].itemType = <<"T", "B">>
          /\ rows[i].notice = <<"N", "C">>
    /\ \E i \in DOMAIN rows :
          /\ rows[i].is_child
          /\ BomTypeOf(i) = <<>>
          /\ rows[i].itemType = <<"T", "C">>
    /\ \E i \in DOMAIN rows :
          /\ rows[i].is_child
          /\ ChildRecords(i) = {}
          /\ BomTypeOf(i) = <<>>
          /\ rows[ParentBefore(i)].itemType = <<"T", "A">>
          /\ rows[ParentBefore(i)].notice = <<"N", "A">>
          /\ rows[i].itemType = <<"T", "A">>
          /\ rows[i].notice = <<"N", "A">>

\* The quantity cells of the tables of the run.
ShipmentQuantities == {shipment.rows[i][ColQty] : i \in DOMAIN shipment.rows}

BomQuantities == {bomData.rows[i][BomQty] : i \in DOMAIN bomData.rows}

\* C12: quantity handling never raises: _display_quantity and
\* _compute_child_quantity return a value for every quantity cell, an
\* unparseable cell comes back unchanged with an empty note, and no run of
\* join_and_map is aborted by a quantity cell.
C12_QuantityNeverRaises ==
    /\ pc # "raised"
    /\ \A q \in ShipmentQuantities \cup BomQuantities :
          /\ _display_quantity(q) # Raised
          /\ _parse_decimal(q) = NoDecimal => _display_quantity(q) = q
    /\ \A p \in ShipmentQuantities, b \in BomQuantities :
          /\ _compute_child_quantity(p, b) # Raised
          /\ _parse_decimal(b) = NoDecimal => _compute_child_quantity(p, b) = <<b, <<>> >>

----------------------------------------------------------------------------
(* load_excel.  A sheet is a sequence of rows of cells (texts, <<>> for an  *)
(* empty cell); read_excel(header=h) takes the names of the columns from    *)
(* row h and the data from the rows below it.                               *)

\* The header rows load_excel tries with a configuration: 0..4.
HeadersWithConfig == 5

\* len(headers_to_try)
headers_to_try(with_config) == IF with_config THEN HeadersWithConfig ELSE 1

\* The name pandas gives to the column of an empty header cell.
Unnamed(k) == <<"U", "n", "n", "a", "m", "e", "d", ":", " ">> \o NatToText(k)

HeaderName(cell, k) == IF cell = <<>> THEN Unnamed(k) ELSE cell

\* df.columns after the loader has cleaned them.
CleanedColumns(header_row) ==
    [k \in DOMAIN header_row |-> _clean_column(HeaderName(header_row[k], k - 1))]

\* The position of a column in the header.
ColumnAt(columns, c) == CHOOSE k \in DOMAIN columns : columns[k] = c

\* A data row of the sheet as a row of the frame; an empty cell is missing.
DataRow(columns, cells) ==
    [c \in {columns[k] : k \in DOMAIN columns} |->
        IF cells[ColumnAt(columns, c)] = <<>> THEN None
        ELSE cells[ColumnAt(columns, c)]]

FrameOf(columns, data) ==
    [columns |-> columns, rows |-> [i \in DOMAIN data |-> DataRow(columns, data[i])]]

\* pd.read_excel(path, header=header, dtype=str) with the columns cleaned.
ReadExcel(sheet, header) ==
    FrameOf(CleanedColumns(sheet[header + 1]), SubSeq(sheet, header + 2, Len(sheet)))

StartsWith(t, prefix) ==
    Len(t) >= Len(prefix) /\ SubSeq(t, 1, Len(prefix)) = prefix

\* [col for col in df.columns if col and not col.startswith("Unnamed")]
Kept(c) == c # <<>> /\ ~StartsWith(c, <<"U", "n", "n", "a", "m", "e", "d">>)

\* df.loc[:, columns].fillna("")
Selected(df, columns) ==
    [columns |-> columns,
     rows |-> [i \in DOMAIN df.rows |->
                  FillNa([c \in {columns[k] : k \in DOMAIN columns} |-> df.rows[i][c]])]]

MappedColumns(config) ==
    UNION {{_clean_column(config.mapping[f][i]) : i \in DOMAIN config.mapping[f]} :
              f \in DOMAIN config.mapping} \ {<<>>}

_expected_columns(config) == {_clean_column(config.join_key)} \cup MappedColumns(config)

\* join_key in df.columns or expected.intersection(df.columns)
Accepted(config, df) ==
    \/ _clean_column(config.join_key) \in ColumnSet(df)
    \/ _expected_columns(config) \cap ColumnSet(df) # {}

NoFrame == [columns |-> <<>>, rows |-> <<>>]

\* ValueError(f"必要な列が見つかりません: {config.join_key}")
MissingColumn(config) == <<"missing column: ">> \o config.join_key

\* One iteration of the loop of load_excel, df being the table just read.
AfterRead(l, config, df) ==
    IF ~l.with_config
    THEN [l EXCEPT !.status = "returned", !.last_df = df,
                   !.result = Selected(df, df.columns)]
    ELSE IF Accepted(config, df)
    THEN [l EXCEPT !.status = "returned", !.last_df = df,
                   !.result = Selected(df, SelectSeq(df.columns, Kept))]
    ELSE [l EXCEPT !.last_df = df, !.header = l.header + 1]

\* Header rows of the sheets: the join key (written with a stray space) and
\* a mapped column; a mapped column without the join key; a title; data.
SheetRows ==
    { << <<" ", "c", "o", "d", "e">>, <<"q", "t", "y">> >>,
      << <<"q", "t", "y">>, <<"z", "z">> >>,
      << <<"z", "z">>, <<>> >>,
      << <<"A">>, <<"2">> >> }

Sheets == [1..HeadersWithConfig -> SheetRows]

\* The pipeline variables while another part of the program is observed.
RunIdle ==
    Start(ShipFrame(<<>>), MasterFrame(Layout6, <<>>), BomFrame(<<>>), FALSE, 1)

InitLoad ==
    /\ RunIdle
    /\ resolver = Idle /\ invocations = Idle /\ ui = Idle
    /\ \E sh \in Sheets, wc \in BOOLEAN :
          loader = [status |-> "trying", sheet |-> sh, with_config |-> wc, header |-> 0,
                    last_df |-> NoFrame, result |-> NoFrame, error |-> <<>>]

\* for header in headers_to_try: one iteration
TryHeader ==
    /\ loader.status = "trying"
    /\ loader.header < headers_to_try(loader.with_config)
    /\ loader' = AfterRead(loader, Config, ReadExcel(loader.sheet, loader.header))
    /\ UNCHANGED <<run, resolver, invocations, ui>>

\* The loop has ended without a return: the loader raises.
AfterLoop ==
    /\ loader.status = "trying"
    /\ loader.header = headers_to_try(loader.with_config)
    /\ loader' = [loader EXCEPT !.status = "raised", !.error = MissingColumn(Config)]
    /\ UNCHANGED <<run, resolver, invocations, ui>>

LoadNext == TryHeader \/ AfterLoop

LoadSpec == InitLoad /\ [][LoadNext]_vars

\* The join-key column is absent at every header position tried.
KeyAbsentEverywhere ==
    \A h \in 0..(HeadersWithConfig - 1) :
        _clean_column(Config.join_key) \notin ColumnSet(ReadExcel(loader.sheet, h))

\* The message holds the key.
Names(message, key) ==
    \E i \in 1..Len(message) : SubSeq(message, i, i + Len(key) - 1) = key

\* C13: with a configuration, load_excel fails with an error naming the join
\* key whenever the join-key column is absent at every header position, and
\* never returns a table without the join-key column.
C13_LoaderRequiresJoinKey ==
    loader.with_config =>
        /\ loader.status = "returned" =>
               _clean_column(Config.join_key) \in ColumnSet(loader.result)
        /\ (KeyAbsentEverywhere /\ loader.status # "trying") =>
               /\ loader.status = "raised"
               /\ Names(loader.error, Config.join_key)

----------------------------------------------------------------------------
(* join_and_map called several times with one BomLookup and one master      *)
(* table, the calls interleaved step by step.  Every call has its own       *)
(* locals; the BomLookup is one object that every call reads.               *)

MaxCalls == 2

Calls == 1..MaxCalls

\* lookup[key] on the defaultdict that build_bom_lookup returns: a missing
\* key is added with an empty list.
LookupGet_subscript(lookup, key) ==
    [value |-> Get(lookup, key, <<>>),
     lookup |-> IF key \in DOMAIN lookup THEN lookup ELSE Put(lookup, key, <<>>)]

\* lookup.get(key, []): the value, and the dict as the read leaves it.
LookupGet(lookup, key) == [value |-> Get(lookup, key, <<>>), lookup |-> lookup]

\* lookup = bom_lookup or {}; children = lookup.get(parent_code_key, [])
\* An empty BomLookup is replaced by a dict of the call's own.
ReadChildren(bom_lookup, key) ==
    IF DOMAIN bom_lookup = {} THEN [value |-> <<>>, lookup |-> bom_lookup]
    ELSE LookupGet(bom_lookup, key)

\* The locals of a call that has not started.
NotStarted ==
    [pc |-> "idle", master_lookup |-> EmptyDict, merged |-> <<>>, rows |-> <<>>,
     parent_index |-> 0, sequence_counter |-> 0, location_column |-> None,
     row_idx |-> 0, parent_row |-> NoRow, children |-> <<>>, child_idx |-> 0]

\* The locals when the loop over the merged rows begins.
Entered(shipment_df, master_df, config) ==
    IF MergeRaises(shipment_df, master_df, _clean_column(config.join_key))
    THEN [NotStarted EXCEPT !.pc = "raised"]
    ELSE [pc |-> "row",
          master_lookup |-> _build_master_lookup(master_df, _clean_column(config.join_key)),
          merged |-> Merge(shipment_df, master_df, _clean_column(config.join_key)),
          rows |-> <<>>,
          parent_index |-> 1,
          sequence_counter |-> 1,
          location_column |-> MasterLocationColumn(master_df),
          row_idx |-> 1,
          parent_row |-> NoRow,
          children |-> <<>>,
          child_idx |-> 0]

\* rows.append(parent_row); sequence_counter += 1; the children are read.
WithParent(l, parent_row, its_children) ==
    [l EXCEPT !.rows = Append(l.rows, parent_row),
              !.sequence_counter = l.sequence_counter + 1,
              !.parent_row = parent_row,
              !.children = its_children,
              !.child_idx = 1,
              !.pc = "child"]

ChildrenRead(inv, c, parent_row, got) ==
    [inv EXCEPT !.lookup = got.lookup,
                !.local[c] = WithParent(inv.local[c], parent_row, got.value)]

ParentAppended(inv, c, parent_row) ==
    ChildrenRead(inv, c, parent_row,
                 ReadChildren(inv.lookup, _normalize_code_value(parent_row.productCode)))

AfterParent(inv, c, data) ==
    IF ParentRaises(Config, data) THEN [inv EXCEPT !.local[c].pc = "raised"]
    ELSE ParentAppended(inv, c,
                        ParentRow(Config, data, inv.local[c].location_column,
                                  inv.local[c].parent_index, inv.local[c].sequence_counter))

AfterChild(l, child) ==
    IF ChildRaises(child, l.parent_row) THEN [l EXCEPT !.pc = "raised"]
    ELSE [l EXCEPT !.rows = Append(l.rows,
                                   ChildRow(Config, child, l.child_idx, l.parent_row,
                                            l.master_lookup, l.location_column,
                                            l.parent_index, l.sequence_counter)),
                   !.sequence_counter = l.sequence_counter + 1,
                   !.child_idx = l.child_idx + 1]

\* The shipments of the calls.
CallShipments ==
    { <<ShipRow(<<"A">>, <<"2">>)>>,
      <<ShipRow(<<"B">>, <<"3">>), ShipRow(<<"A">>, <<"2">>)>>,
      <<ShipRow(<<"B">>, <<"sNaN">>)>> }

CallLookups == {EmptyDict, build_bom_lookup(BomFrame(BomJoin), BomCfg)}

InitCalls ==
    /\ RunIdle
    /\ loader = Idle /\ resolver = Idle /\ ui = Idle
    /\ \E ss \in [Calls -> CallShipments], lk \in CallLookups :
          invocations = [lookup |-> lk, given |-> lk,
                         master |-> MasterFrame(Layout11, <<mA, mC>>),
                         shipment |-> [c \in Calls |-> ShipFrame(ss[c])],
                         local |-> [c \in Calls |-> NotStarted]]

\* join_and_map up to its loop
CallEnter(c) ==
    /\ invocations.local[c].pc = "idle"
    /\ invocations' = [invocations EXCEPT
                          !.local[c] = Entered(invocations.shipment[c],
                                               invocations.master, Config)]
    /\ UNCHANGED <<run, loader, resolver, ui>>

CallParent(c) ==
    /\ invocations.local[c].pc = "row"
    /\ invocations.local[c].row_idx <= Len(invocations.local[c].merged)
    /\ invocations' =
           AfterParent(invocations, c,
                       FillNa(invocations.local[c].merged[invocations.local[c].row_idx]))
    /\ UNCHANGED <<run, loader, resolver, ui>>

CallChild(c) ==
    /\ invocations.local[c].pc = "child"
    /\ invocations.local[c].child_idx <= Len(invocations.local[c].children)
    /\ invocations' =
           [invocations EXCEPT
               !.local[c] = AfterChild(invocations.local[c],
                                       invocations.local[c].children[
                                           invocations.local[c].child_idx])]
    /\ UNCHANGED <<run, loader, resolver, ui>>

CallAdvance(c) ==
    /\ invocations.local[c].pc = "child"
    /\ invocations.local[c].child_idx > Len(invocations.local[c].children)
    /\ invocations' = [invocations EXCEPT
                          !.local[c].parent_index = invocations.local[c].parent_index + 1,
                          !.local[c].row_idx = invocations.local[c].row_idx + 1,
                          !.local[c].pc = "row"]
    /\ UNCHANGED <<run, loader, resolver, ui>>

CallReturn(c) ==
    /\ invocations.local[c].pc = "row"
    /\ invocations.local[c].row_idx > Len(invocations.local[c].merged)
    /\ invocations' = [invocations EXCEPT !.local[c].pc = "returned"]
    /\ UNCHANGED <<run, loader, resolver, ui>>

CallsNext ==
    \E c \in Calls :
        \/ CallEnter(c)
        \/ CallParent(c)
        \/ CallChild(c)
        \/ CallAdvance(c)
        \/ CallReturn(c)

CallsSpec == InitCalls /\ [][CallsNext]_vars

\* The rows one call gives when it runs alone: the children of one parent
\* from entry i on, and the blocks of the merged rows from row j on.
RECURSIVE ChildRowsFrom(_, _, _, _, _, _, _)
ChildRowsFrom(entries, i, parent_row, master_lookup, column, parent_index, sequence_counter) ==
    IF i > Len(entries) THEN <<>>
    ELSE <<ChildRow(Config, entries[i], i, parent_row, master_lookup, column,
                    parent_index, sequence_counter)>>
         \o ChildRowsFrom(entries, i + 1, parent_row, master_lookup, column,
                          parent_index, sequence_counter + 1)

RECURSIVE RowsFrom(_, _, _, _, _, _, _)
RowsFrom(merged_rows, j, master_lookup, column, lookup, parent_index, sequence_counter) ==
    IF j > Len(merged_rows) THEN <<>>
    ELSE LET parent == ParentRow(Config, FillNa(merged_rows[j]), column,
                                 parent_index, sequence_counter)
             block == <<parent>>
                      \o ChildRowsFrom(Get(lookup,
                                           _normalize_code_value(parent.productCode), <<>>),
                                       1, parent, master_lookup, column, parent_index,
                                       sequence_counter + 1)
         IN  block \o RowsFrom(merged_rows, j + 1, master_lookup, column, lookup,
                               parent_index + 1, sequence_counter + Len(block))

AloneRows(c) ==
    RowsFrom(Merge(invocations.shipment[c], invocations.master, JoinKey), 1,
             _build_master_lookup(invocations.master, JoinKey),
             MasterLocationColumn(invocations.master), invocations.given, 1, 1)

NParents(rs) == Cardinality({i \in DOMAIN rs : ~rs[i].is_child})

\* The counters of a call count its own rows only.
OwnCounters(l) ==
    l.pc \in {"row", "child", "returned"} =>
        /\ l.sequence_counter = Len(l.rows) + 1
        /\ l.parent_index = NParents(l.rows) + (IF l.pc = "child" THEN 0 ELSE 1)

\* C14: calls of join_and_map are isolated, run one after the other or
\* interleaved: the counters of each call start at 1 and count its own rows,
\* its result is the one its own arguments give, and the BomLookup passed to
\* the calls is left as it was given.
C14_Isolated ==
    /\ invocations.lookup = invocations.given
    /\ \A c \in Calls :
          /\ OwnCounters(invocations.local[c])
          /\ invocations.local[c].pc = "returned" =>
                 invocations.local[c].rows = AloneRows(c)
          /\ invocations.local[c].pc = "raised" =>
                 \E i \in DOMAIN invocations.shipment[c].rows :
                     _display_quantity(invocations.shipment[c].rows[i][ColQty]) = Raised

C14_Witness ==
    /\ DOMAIN invocations.given # {}
    /\ invocations.local[1].pc = "child"
    /\ Len(invocations.local[1].rows) = 2
    /\ invocations.local[1].sequence_counter = 3
    /\ invocations.local[2].pc = "returned"
    /\ Len(invocations.local[2].rows) = 5
    /\ invocations.local[2].rows = AloneRows(2)
    /\ invocations.lookup = invocations.given

----------------------------------------------------------------------------
(* resolve_field on its own: every row over the variants of two column      *)
(* names, every order of the two names in the mapping.                      *)

NameA == <<"n", "a">>
NameB == <<"n", "b">>

ResolveKeys ==
    {NameA, NameA \o SuffixIn, NameA \o SuffixMst, NameB, NameB \o SuffixIn, NameB \o SuffixMst}

\* The non-empty cell of a column carries the name of the column.
CellOf(k) == <<"=">> \o k

\* The empty cell of a column: "" in a shipment column, a missing value in
\* a master column that has not been filled.
EmptyCellOf(k) == IF StartsWith(k, NameB) THEN None ELSE <<>>

\* Rows: every column absent, empty or filled.
ResolveRows ==
    UNION {{[k \in keys |-> IF k \in filled THEN CellOf(k) ELSE EmptyCellOf(k)] :
               filled \in SUBSET keys} : keys \in SUBSET ResolveKeys}

\* Mappings of the field "notice": both orders (names written with stray
\* whitespace), one name, no name; or no mapping of the field at all.
ResolveMappings ==
    { [notice |-> << <<" ">> \o NameA, NameB \o <<"idsp">> >>],
      [notice |-> <<NameB, NameA>>],
      [notice |-> <<NameB>>],
      [notice |-> <<>>],
      [itemType |-> <<NameA>>] }

InitResolve ==
    /\ RunIdle
    /\ loader = Idle /\ invocations = Idle /\ ui = Idle
    /\ \E mp \in ResolveMappings, r \in ResolveRows :
          resolver = [status |-> "called",
                      config |-> [join_key |-> Config.join_key, mapping |-> mp],
                      row |-> r, field |-> "notice", result |-> <<>>,
                      given_config |-> [join_key |-> Config.join_key, mapping |-> mp],
                      given_row |-> r]

\* resolve_field(config, row, field) returns; it writes to neither argument.
Resolve ==
    /\ resolver.status = "called"
    /\ resolver' = [resolver EXCEPT
                       !.status = "returned",
                       !.result = resolve_field(resolver.config, resolver.row,
                                                resolver.field)]
    /\ UNCHANGED <<run, loader, invocations, ui>>

ResolveNext == Resolve

ResolveSpec == InitResolve /\ [][ResolveNext]_vars

\* The columns in the order of the scan: the names of the mapping by
\* priority, each as bare cleaned name, name_in, name_mst.
ScanOrder(bases) ==
    [n \in 1..(3 * Len(bases)) |->
        CASE (n - 1) % 3 = 0 -> _clean_column(bases[((n - 1) \div 3) + 1])
          [] (n - 1) % 3 = 1 -> _clean_column(bases[((n - 1) \div 3) + 1]) \o SuffixIn
          [] OTHER -> _clean_column(bases[((n - 1) \div 3) + 1]) \o SuffixMst]

NonEmptyAt(row, k) == k \in DOMAIN row /\ row[k] \notin {None, <<>>}

BasesOf(config, field) ==
    IF field \in DOMAIN config.mapping THEN config.mapping[field] ELSE <<>>

FirstNonEmpty(row, scan) ==
    CHOOSE n \in DOMAIN scan :
        NonEmptyAt(row, scan[n]) /\ \A m \in 1..(n - 1) : ~NonEmptyAt(row, scan[m])

\* C15: resolve_field returns the value of the first non-empty column in
\* the scan order (names by priority, each as bare, _in, _mst), the empty
\* string when the field has no mapping or no column of the scan is
\* non-empty, and leaves row and config as they were.
C15_ResolveField ==
    resolver.status = "returned" =>
        /\ resolver.row = resolver.given_row
        /\ resolver.config = resolver.given_config
        /\ IF \E n \in DOMAIN ScanOrder(BasesOf(resolver.config, resolver.field)) :
                  NonEmptyAt(resolver.row,
                             ScanOrder(BasesOf(resolver.config, resolver.field))[n])
           THEN resolver.result =
                    resolver.row[ScanOrder(BasesOf(resolver.config, resolver.field))[
                        FirstNonEmpty(resolver.row,
                                      ScanOrder(BasesOf(resolver.config, resolver.field)))]]
           ELSE resolver.result = <<>>

C15_Witness ==
    /\ resolver.status = "returned"
    /\ BasesOf(resolver.config, "notice") = << <<" ">> \o NameA, NameB \o <<"idsp">> >>
    /\ DOMAIN resolver.row = {NameA \o SuffixIn, NameA \o SuffixMst, NameB}
    /\ resolver.row[NameA \o SuffixIn] = CellOf(NameA \o SuffixIn)
    /\ resolver.row[NameA \o SuffixMst] = CellOf(NameA \o SuffixMst)
    /\ resolver.row[NameB] = CellOf(NameB)
    /\ resolver.result = CellOf(NameA \o SuffixIn)

\* The master rows whose join-key value normalizes to k.
RowsOfKey(k) ==
    {i \in DOMAIN master.rows : _normalize_code_value(master.rows[i][JoinKey]) = k}

\* join_and_map has built its master lookup.
MasterLookupBuilt == pc \in {"row", "child", "returned", "done"}

\* C16: the master lookup maps every non-empty normalized join-key value of
\* the master table to the last master row of that key; rows of an empty
\* normalized key are in no entry; a stored row holds every column under its
\* name and under name_mst, with the value of the column.
C16_MasterLookup ==
    MasterLookupBuilt =>
        /\ DOMAIN masterLookup =
               {_normalize_code_value(master.rows[i][JoinKey]) : i \in DOMAIN master.rows}
                   \ {<<>>}
        /\ \A k \in DOMAIN masterLookup :
              /\ DOMAIN masterLookup[k] =
                     ColumnSet(master) \cup {c \o SuffixMst : c \in ColumnSet(master)}
              /\ \A c \in ColumnSet(master) :
                    /\ masterLookup[k][c] =
                           normalize_value(master.rows[LastOf(RowsOfKey(k))][c])
                    /\ masterLookup[k][c \o SuffixMst] = masterLookup[k][c]

C16_Witness ==
    /\ MasterLookupBuilt
    /\ Len(master.rows) = 3
    /\ RowsOfKey(<<"C">>) = {1, 3}
    /\ RowsOfKey(<<>>) = {2}
    /\ master.rows[1][ColName] = <<>>
    /\ DOMAIN masterLookup = {<<"C">>}
    /\ masterLookup[<<"C">>][ColName] = <<"P", "C">>
    /\ masterLookup[<<"C">>][ColName \o SuffixMst] = <<"P", "C">>

\* The BOM rows that have both normalized codes, under normalized parent k.
RowsWithCodes(k) ==
    {i \in DOMAIN bomData.rows :
        /\ _normalize_code_value(bomData.rows[i][BomParent]) = k
        /\ _normalize_code_value(bomData.rows[i][BomChild]) # <<>>}

\* C17: build_bom_lookup skips a BOM row when its normalized parent code or
\* its normalized child code is empty (codes of whitespace or width-form
\* spaces included); every other row gives exactly one entry in the list of
\* its normalized parent code; no entry has an empty child code.
C17_BomCodes ==
    (pc = "loaded" /\ useBom) =>
        /\ <<>> \notin DOMAIN bomLookup.dict
        /\ DOMAIN bomLookup.dict =
               {_normalize_code_value(bomData.rows[i][BomParent]) :
                   i \in {j \in DOMAIN bomData.rows :
                             /\ _normalize_code_value(bomData.rows[j][BomParent]) # <<>>
                             /\ _normalize_code_value(bomData.rows[j][BomChild]) # <<>>}}
        /\ \A k \in DOMAIN bomLookup.dict :
              /\ Len(bomLookup.dict[k]) = Cardinality(RowsWithCodes(k))
              /\ \A n \in DOMAIN bomLookup.dict[k] :
                    _normalize_code_value(bomLookup.dict[k][n].productCode) # <<>>

\* Number of occurrences of a character in a text.
RECURSIVE CountChar(_, _)
CountChar(t, ch) ==
    IF t = <<>> THEN 0
    ELSE (IF Head(t) = ch THEN 1 ELSE 0) + CountChar(Tail(t), ch)

\* The parent at position p is followed by one child per entry of its
\* BomLookup list, in the order of the list, and by nothing else of its own.
BlockAt(p) ==
    /\ p + Len(EntriesOf(rows[p])) <= Len(rows)
    /\ \A n \in 1..Len(EntriesOf(rows[p])) :
          /\ rows[p + n].is_child
          /\ rows[p + n].child_index = n
          /\ rows[p + n].productCode = EntriesOf(rows[p])[n].productCode
    /\ \/ p + Len(EntriesOf(rows[p])) = Len(rows)
       \/ ~rows[p + Len(EntriesOf(rows[p])) + 1].is_child

\* C18: the hierarchy has depth 1: the rows of one merged row are the parent
\* and one child per BomLookup entry of the parent's normalized code; a child
\* whose code is a key of the BomLookup gets no children of its own; a child
\* follows its parent or an earlier sibling; no "no" has more than one "-".
C18_DepthOne ==
    Returned =>
        /\ Cardinality(ParentPositions) = Len(merged)
        /\ rows # <<>> => ~rows[1].is_child
        /\ \A p \in ParentPositions : BlockAt(p)
        /\ \A i \in DOMAIN rows :
              CountChar(rows[i].no, "-") = (IF rows[i].is_child THEN 1 ELSE 0)

C18_Witness ==
    /\ Returned
    /\ Len(rows) = 4
    /\ ~rows[3].is_child
    /\ rows[3].productCode = <<"B">>
    /\ rows[4].is_child
    /\ rows[4].productCode = <<"A">>
    /\ rows[4].no = <<"2", "-", "1">>
    /\ <<"A">> \in DOMAIN bomLookup.dict
    /\ BlockAt(3)

----------------------------------------------------------------------------
(* The desktop window of src/src/ui_desktop/main.py.  The handlers run on   *)
(* the main thread, one at a time; a worker thread emits its result signal  *)
(* and then its finished signal, and the main thread handles the queued     *)
(* signals in the order of their emission.                                  *)

\* Bounds of the model of the window
MaxPrintThreads == 2
MaxQueue == 3

\* MainWindow.__init__: the generate button enabled, the print button
\* disabled, no PDF yet, no worker.
InitUi ==
    /\ RunIdle
    /\ loader = Idle /\ resolver = Idle /\ invocations = Idle
    /\ ui = [generate_enabled |-> TRUE, print_enabled |-> FALSE, last_pdf |-> FALSE,
             render_running |-> 0, render_emitted |-> 0,
             print_running |-> 0, print_emitted |-> 0, queue |-> <<>>]

\* _on_generate: a click on the enabled generate button; with paths that do
\* not pass the checks the handler only logs.
OnGenerate ==
    /\ ui.generate_enabled
    /\ \E paths_ok \in BOOLEAN :
          ui' = IF paths_ok
                THEN [ui EXCEPT !.generate_enabled = FALSE,
                                !.render_running = ui.render_running + 1]
                ELSE ui
    /\ UNCHANGED <<run, loader, resolver, invocations>>

\* WorkerThread.run: the request returns with a PDF, without one, or fails.
WorkerRun ==
    /\ ui.render_running > 0
    /\ Len(ui.queue) < MaxQueue
    /\ \E signal \in {"render_pdf", "render_no_pdf", "render_failed"} :
          ui' = [ui EXCEPT !.render_running = ui.render_running - 1,
                           !.render_emitted = ui.render_emitted + 1,
                           !.queue = Append(ui.queue, signal)]
    /\ UNCHANGED <<run, loader, resolver, invocations>>

\* The WorkerThread ends: QThread.finished
WorkerFinished ==
    /\ ui.render_emitted > 0
    /\ Len(ui.queue) < MaxQueue
    /\ ui' = [ui EXCEPT !.render_emitted = ui.render_emitted - 1,
                        !.queue = Append(ui.queue, "render_finished")]
    /\ UNCHANGED <<run, loader, resolver, invocations>>

\* _on_print: a click on the enabled print button.
OnPrint ==
    /\ ui.print_enabled
    /\ ui.print_running + ui.print_emitted < MaxPrintThreads
    /\ ui' = IF ~ui.last_pdf THEN ui
             ELSE [ui EXCEPT !.print_enabled = FALSE,
                             !.print_running = ui.print_running + 1]
    /\ UNCHANGED <<run, loader, resolver, invocations>>

\* PrintThread.run: finishedOk or failed
PrintRun ==
    /\ ui.print_running > 0
    /\ Len(ui.queue) < MaxQueue
    /\ \E signal \in {"print_ok", "print_failed"} :
          ui' = [ui EXCEPT !.print_running = ui.print_running - 1,
                           !.print_emitted = ui.print_emitted + 1,
                           !.queue = Append(ui.queue, signal)]
    /\ UNCHANGED <<run, loader, resolver, invocations>>

\* The PrintThread ends: QThread.finished
PrintFinished ==
    /\ ui.print_emitted > 0
    /\ Len(ui.queue) < MaxQueue
    /\ ui' = [ui EXCEPT !.print_emitted = ui.print_emitted - 1,
                        !.queue = Append(ui.queue, "print_finished")]
    /\ UNCHANGED <<run, loader, resolver, invocations>>

\* The slot of one signal: _on_generate_success, the lambdas connected to
\* finished; the other slots only log.
Handled(u, signal) ==
    CASE signal = "render_pdf" -> [u EXCEPT !.last_pdf = TRUE, !.print_enabled = TRUE]
      [] signal = "render_no_pdf" -> [u EXCEPT !.last_pdf = FALSE, !.print_enabled = FALSE]
      [] signal = "render_finished" -> [u EXCEPT !.generate_enabled = TRUE]
      [] signal = "print_finished" -> [u EXCEPT !.print_enabled = TRUE]
      [] OTHER -> u

\* The main thread handles the oldest queued signal.
Dispatch ==
    /\ ui.queue # <<>>
    /\ ui' = [Handled(ui, Head(ui.queue)) EXCEPT !.queue = Tail(ui.queue)]
    /\ UNCHANGED <<run, loader, resolver, invocations>>

UiNext ==
    \/ OnGenerate
    \/ WorkerRun
    \/ WorkerFinished
    \/ OnPrint
    \/ PrintRun
    \/ PrintFinished
    \/ Dispatch

UiSpec == InitUi /\ [][UiNext]_vars

\* The PrintThreads that have been started and have not ended.
PrintsInFlight == ui.print_running + ui.print_emitted

\* C19: at most one print request is in flight: while a PrintThread runs
\* the print button is disabled, so that no second PrintThread is started.
C19_SinglePrint ==
    /\ PrintsInFlight <= 1
    /\ PrintsInFlight = 1 => ~ui.print_enabled

====
